---- MODULE Spec2Model ----
(***************************************************************************)
(* Counting engine of squab: the record-pair buffer (record_pairs.rs) and  *)
(* the three counting entry points (count.rs), with the strand text        *)
(* encoding (strand.rs).                                                   *)
(***************************************************************************)
EXTENDS Integers, Sequences, FiniteSets, TLC

\* Longest record stream fed to an entry point.
MaxRecords == 2

\* Longest record stream fed to the pair buffer.
MaxPaired == 2

\* Longest record stream fed to the pair buffer in the runs that keep the
\* stream (fewer distinct records, longer streams).
MaxOrdered == 3

----------------------------------------------------------------------------
\* Context (count/context.rs; the fields count.rs and the flt write to)

EmptyCounts == [g \in {} |-> 0]

ContextDefault ==
    [counts |-> EmptyCounts, no_feature |-> 0, ambiguous |-> 0,
     low_quality |-> 0, unmapped |-> 0, nonunique |-> 0, duplicate |-> 0,
     secondary |-> 0, supplementary |-> 0]

RECURSIVE SumCounts(_)
SumCounts(counts) ==
    IF DOMAIN counts = {} THEN 0
    ELSE LET g == CHOOSE x \in DOMAIN counts : TRUE
         IN  counts[g] + SumCounts([h \in DOMAIN counts \ {g} |-> counts[h]])

FilterCounters(c) ==
    c.low_quality + c.unmapped + c.nonunique + c.duplicate + c.secondary
    + c.supplementary

Total(c) == SumCounts(c.counts) + c.no_feature + c.ambiguous + FilterCounters(c)

----------------------------------------------------------------------------
\* Reference table and feature index (the collaborators of count.rs)

\* build_references: chr1, chr2, chr3
ReferenceSequences == <<"chr1", "chr2", "chr3">>

Entry(s, e, gene, strand) == [start |-> s, end |-> e, gene |-> gene, strand |-> strand]

\* Features: reference name -> interval tree of (gene name, strand) entries.
\* chr3 is in the reference table but has no tree.
Features ==
    [chr1 |-> {Entry(10, 20, "A", "Forward"), Entry(18, 30, "B", "Reverse"),
               Entry(40, 50, "C", "Irrelevant")},
     chr2 |-> {Entry(10, 20, "D", "Reverse")}]

\* IntervalTree::find: the entries overlapping the half-open [lo, hi)
TreeFind(tree, lo, hi) == {e \in tree : e.start < hi /\ lo < e.end}

----------------------------------------------------------------------------
\* Filter (count/flt.rs)

\* Filter::filter: the reason of the drop, "pass" when there is none
FilterReason(flt, rec) ==
    IF "unmapped" \in rec.flags THEN "unmapped"
    ELSE IF "secondary" \in rec.flags /\ ~flt.with_secondary_records
        THEN "secondary"
    ELSE IF "supplementary" \in rec.flags /\ ~flt.with_supplementary_records
        THEN "supplementary"
    ELSE IF rec.mapq < flt.min_mapping_quality THEN "low_quality"
    ELSE IF "duplicate" \in rec.flags /\ ~flt.with_duplicate_records
        THEN "duplicate"
    ELSE IF rec.nh > 1 /\ ~flt.with_nonunique_records THEN "nonunique"
    ELSE "pass"

Attribute(c, reason) == [c EXCEPT ![reason] = @ + 1]

\* Filter::filter(ctx, record): drop is TRUE when the record is dropped
FilterRecord(flt, c, rec) ==
    LET why == FilterReason(flt, rec)
    IN  IF why = "pass" THEN [ctx |-> c, drop |-> FALSE]
        ELSE [ctx |-> Attribute(c, why), drop |-> TRUE]

\* Filter::filter_pair(ctx, r1, r2): the first dropping mate names the counter
FilterPair(flt, c, r1, r2) ==
    LET w1 == FilterReason(flt, r1)
        w2 == FilterReason(flt, r2)
    IN  IF w1 # "pass" THEN [ctx |-> Attribute(c, w1), drop |-> TRUE]
        ELSE IF w2 # "pass" THEN [ctx |-> Attribute(c, w2), drop |-> TRUE]
        ELSE [ctx |-> c, drop |-> FALSE]

----------------------------------------------------------------------------
\* CigarToIntervals (cigar_to_intervals.rs)

Op(kind, len) == [kind |-> kind, len |-> len]

MatchOps == {"M", "=", "X"}
SkipOps  == {"N", "D"}

\* One interval per maximal run of match operations; a skip or deletion
\* closes the open run; the last run is flushed when the CIGAR ends.
RECURSIVE Project(_, _, _, _, _, _)
Project(cigar, i, cursor, open, run_start, is_reverse) ==
    IF i > Len(cigar)
    THEN IF open THEN <<[start |-> run_start, end |-> cursor, is_reverse |-> is_reverse]>>
         ELSE << >>
    ELSE LET op == cigar[i]
         IN  IF op.kind \in MatchOps
             THEN Project(cigar, i + 1, cursor + op.len, TRUE,
                          IF open THEN run_start ELSE cursor, is_reverse)
             ELSE IF op.kind \in SkipOps
             THEN (IF open
                   THEN <<[start |-> run_start, end |-> cursor, is_reverse |-> is_reverse]>>
                   ELSE << >>)
                  \o Project(cigar, i + 1, cursor + op.len, FALSE, run_start, is_reverse)
             ELSE Project(cigar, i + 1, cursor, open, run_start, is_reverse)

\* CigarToIntervals::new(cigar, start, flags, reverse)
CigarToIntervals(cigar, start, flags, reverse) ==
    Project(cigar, 1, start, FALSE, start, ("reverse" \in flags) # reverse)

----------------------------------------------------------------------------
\* count.rs

Ok(v)  == [ok |-> TRUE, value |-> v, error |-> ""]
Err(e) == [ok |-> FALSE, value |-> "", error |-> e]

\* What a step of an entry point returns: the Context, and the error if any
Counted(c) == [ok |-> TRUE, ctx |-> c, error |-> ""]
Failed(c, e) == [ok |-> FALSE, ctx |-> c, error |-> e]

\* get_reference
get_reference(references, ref_id) ==
    IF ref_id < 0 THEN Err("expected ref id >= 0")
    ELSE IF ref_id + 1 \in DOMAIN references
        THEN Ok(references[ref_id + 1])
        ELSE Err("expected ref id < len")

\* get_tree that leaves no_feature alone when the name has no tree
get_tree_silent(c, features, references, ref_id) ==
    LET reference == get_reference(references, ref_id)
    IN  IF ~reference.ok
        THEN [ok |-> FALSE, error |-> reference.error, ctx |-> c, some |-> FALSE,
              tree |-> {}]
        ELSE IF reference.value \in DOMAIN features
            THEN [ok |-> TRUE, error |-> "", ctx |-> c, some |-> TRUE,
                  tree |-> features[reference.value]]
            ELSE [ok |-> TRUE, error |-> "", ctx |-> c, some |-> FALSE, tree |-> {}]

\* get_tree adding to no_feature also when the reference id is rejected
get_tree_counts_rejected(c, features, references, ref_id) ==
    LET reference == get_reference(references, ref_id)
        counted == [c EXCEPT !.no_feature = @ + 1]
    IN  IF ~reference.ok
        THEN [ok |-> FALSE, error |-> reference.error, ctx |-> counted,
              some |-> FALSE, tree |-> {}]
        ELSE IF reference.value \in DOMAIN features
            THEN [ok |-> TRUE, error |-> "", ctx |-> c, some |-> TRUE,
                  tree |-> features[reference.value]]
            ELSE [ok |-> TRUE, error |-> "", ctx |-> counted, some |-> FALSE,
                  tree |-> {}]

\* get_tree: ok is FALSE on Err; some is FALSE when the name has no tree (None)
get_tree(c, features, references, ref_id) ==
    LET reference == get_reference(references, ref_id)
    IN  IF ~reference.ok
        THEN [ok |-> FALSE, error |-> reference.error, ctx |-> c, some |-> FALSE,
              tree |-> {}]
        ELSE IF reference.value \in DOMAIN features
            THEN [ok |-> TRUE, error |-> "", ctx |-> c, some |-> TRUE,
                  tree |-> features[reference.value]]
            ELSE [ok |-> TRUE, error |-> "", ctx |-> [c EXCEPT !.no_feature = @ + 1],
                  some |-> FALSE, tree |-> {}]

StrandMatches(strand, is_reverse) ==
    \/ strand = "Reverse" /\ is_reverse
    \/ strand = "Forward" /\ ~is_reverse

\* find looking the first interval of the read up only
find_first_interval(tree, intervals, spec) ==
    {e.gene : e \in
        {e \in tree : \E k \in DOMAIN intervals \cap {1} :
            /\ e \in TreeFind(tree, intervals[k].start, intervals[k].end)
            /\ \/ spec = "None"
               \/ StrandMatches(e.strand, intervals[k].is_reverse)}}

\* find applying the strand test under every strand specification
find_always_stranded(tree, intervals, spec) ==
    {e.gene : e \in
        {e \in tree : \E k \in DOMAIN intervals :
            /\ e \in TreeFind(tree, intervals[k].start, intervals[k].end)
            /\ StrandMatches(e.strand, intervals[k].is_reverse)}}

\* find: the gene names of the entries hit by any interval of the read
find(tree, intervals, spec) ==
    {e.gene : e \in
        {e \in tree : \E k \in DOMAIN intervals :
            /\ e \in TreeFind(tree, intervals[k].start, intervals[k].end)
            /\ \/ spec = "None"
               \/ StrandMatches(e.strand, intervals[k].is_reverse)}}

\* update_intersections with one unit per gene of the set
update_intersections_each_gene(c, intersections) ==
    IF intersections = {} THEN [c EXCEPT !.no_feature = @ + 1]
    ELSE [c EXCEPT !.counts =
            [g \in DOMAIN c.counts \cup intersections |->
                (IF g \in DOMAIN c.counts THEN c.counts[g] ELSE 0)
                + (IF g \in intersections THEN 1 ELSE 0)]]

\* update_intersections storing 1 for the gene in a fresh map of counts
update_intersections_fresh_counts(c, intersections) ==
    IF intersections = {} THEN [c EXCEPT !.no_feature = @ + 1]
    ELSE IF Cardinality(intersections) = 1
        THEN [c EXCEPT !.counts = [g \in intersections |-> 1]]
    ELSE IF Cardinality(intersections) > 1 THEN [c EXCEPT !.ambiguous = @ + 1]
    ELSE c

\* update_intersections
update_intersections(c, intersections) ==
    IF intersections = {} THEN [c EXCEPT !.no_feature = @ + 1]
    ELSE IF Cardinality(intersections) = 1
        THEN LET name == CHOOSE g \in intersections : TRUE
             IN  [c EXCEPT !.counts =
                    [g \in DOMAIN c.counts \cup {name} |->
                        IF g = name
                        THEN (IF g \in DOMAIN c.counts THEN c.counts[g] ELSE 0) + 1
                        ELSE c.counts[g]]]
    ELSE IF Cardinality(intersections) > 1 THEN [c EXCEPT !.ambiguous = @ + 1]
    ELSE c

\* count_single_end_record never inverting the strand of the read
count_single_end_record_no_invert(c, features, references, flt, spec, rec) ==
    LET f == FilterRecord(flt, c, rec)
        start == rec.pos + 1
        intervals == CigarToIntervals(rec.cigar, start, rec.flags, FALSE)
        t == get_tree(f.ctx, features, references, rec.ref_id)
    IN  IF f.drop THEN Counted(f.ctx)
        ELSE IF ~t.ok THEN Failed(t.ctx, t.error)
        ELSE IF ~t.some THEN Counted(t.ctx)
        ELSE Counted(update_intersections(t.ctx, find(t.tree, intervals, spec)))

\* count_single_end_record resolving the tree before it asks the filter
count_single_end_record_lookup_first(c, features, references, flt, spec, rec) ==
    LET f == FilterRecord(flt, c, rec)
        start == rec.pos + 1
        reverse == (spec = "Reverse")
        intervals == CigarToIntervals(rec.cigar, start, rec.flags, reverse)
        t == get_tree(f.ctx, features, references, rec.ref_id)
    IN  IF ~t.ok THEN Failed(c, t.error)
        ELSE IF f.drop THEN Counted(f.ctx)
        ELSE IF ~t.some THEN Counted(t.ctx)
        ELSE Counted(update_intersections(t.ctx, find(t.tree, intervals, spec)))

\* count_single_end_record: ok is FALSE on Err
count_single_end_record(c, features, references, flt, spec, rec) ==
    LET f == FilterRecord(flt, c, rec)
        start == rec.pos + 1
        reverse == (spec = "Reverse")
        intervals == CigarToIntervals(rec.cigar, start, rec.flags, reverse)
        t == get_tree(f.ctx, features, references, rec.ref_id)
    IN  IF f.drop THEN Counted(f.ctx)
        ELSE IF ~t.ok THEN Failed(t.ctx, t.error)
        ELSE IF ~t.some THEN Counted(t.ctx)
        ELSE Counted(update_intersections(t.ctx, find(t.tree, intervals, spec)))

\* The body of the loop of count_paired_end_records, looking up the tree of
\* the second mate also when the first mate has none
count_paired_end_pair_both_lookups(c, features, references, flt, spec, r1, r2) ==
    LET f == FilterPair(flt, c, r1, r2)
        t1 == get_tree(f.ctx, features, references, r1.ref_id)
        set1 == find(t1.tree,
                     CigarToIntervals(r1.cigar, r1.pos + 1, r1.flags, spec = "Reverse"),
                     spec)
        t2 == get_tree(t1.ctx, features, references, r2.ref_id)
        set2 == find(t2.tree,
                     CigarToIntervals(r2.cigar, r2.pos + 1, r2.flags, spec # "Reverse"),
                     spec)
    IN  IF f.drop THEN Counted(f.ctx)
        ELSE IF ~t1.ok THEN Failed(t1.ctx, t1.error)
        ELSE IF ~t2.ok THEN Failed(t2.ctx, t2.error)
        ELSE IF ~t1.some \/ ~t2.some THEN Counted(t2.ctx)
        ELSE Counted(update_intersections(t2.ctx, set1 \cup set2))

\* The body of the loop of count_paired_end_records on one pair
count_paired_end_pair(c, features, references, flt, spec, r1, r2) ==
    LET f == FilterPair(flt, c, r1, r2)
        reverse1 == (spec = "Reverse")
        intervals1 == CigarToIntervals(r1.cigar, r1.pos + 1, r1.flags, reverse1)
        t1 == get_tree(f.ctx, features, references, r1.ref_id)
        set1 == find(t1.tree, intervals1, spec)
        reverse2 == (spec # "Reverse")
        intervals2 == CigarToIntervals(r2.cigar, r2.pos + 1, r2.flags, reverse2)
        t2 == get_tree(t1.ctx, features, references, r2.ref_id)
        set2 == find(t2.tree, intervals2, spec)
    IN  IF f.drop THEN Counted(f.ctx)
        ELSE IF ~t1.ok THEN Failed(t1.ctx, t1.error)
        ELSE IF ~t1.some THEN Counted(t1.ctx)
        ELSE IF ~t2.ok THEN Failed(t2.ctx, t2.error)
        ELSE IF ~t2.some THEN Counted(t2.ctx)
        ELSE Counted(update_intersections(t2.ctx, set1 \cup set2))

----------------------------------------------------------------------------
\* record_pairs.rs

\* PairPosition::from(flag); "panic" stands for panic!("unknown pair position")
PairPositionFrom(flags) ==
    IF "read1" \in flags THEN "First"
    ELSE IF "read2" \in flags THEN "Second"
    ELSE "panic"

\* PairPosition::mate
Mate(position) ==
    CASE position = "First" -> "Second"
      [] position = "Second" -> "First"
      [] OTHER -> position

\* The template length is an i32.
I32Max == 2147483647
I32Min == -I32Max - 1

\* -x on an i32 without overflow checks: i32::MIN negates to itself
Neg32(x) == IF x = I32Min THEN I32Min ELSE -x

\* key
key(rec) ==
    <<rec.name, PairPositionFrom(rec.flags), rec.ref_id, rec.pos,
      rec.next_ref_id, rec.next_pos, rec.tlen>>

\* mate_key with the template length not negated
mate_key_same_tlen(rec) ==
    <<rec.name, Mate(PairPositionFrom(rec.flags)), rec.next_ref_id,
      rec.next_pos, rec.ref_id, rec.pos, rec.tlen>>

\* mate_key
mate_key(rec) ==
    <<rec.name, Mate(PairPositionFrom(rec.flags)), rec.next_ref_id,
      rec.next_pos, rec.ref_id, rec.pos, Neg32(rec.tlen)>>

\* A lookup that leaves the record in the buffer
BufRemove_keeps_record(b, k) == b

\* HashMap::remove / HashMap::insert on the buffer
BufRemove(b, k) == [x \in DOMAIN b \ {k} |-> b[x]]
\* An insert that keeps the record already stored under the key
BufInsert_keep_stored(b, k, r) == [x \in DOMAIN b \cup {k} |-> IF x \in DOMAIN b THEN b[x] ELSE r]
BufInsert(b, k, r) == [x \in DOMAIN b \cup {k} |-> IF x = k THEN r ELSE b[x]]
EmptyBuf == [k \in {} |-> 0]

\* The panic of mate_key on a record, "" when there is none: no pair
\* position, or the negation of i32::MIN in a build with overflow checks
KeyPanic(checks, rec) ==
    IF PairPositionFrom(rec.flags) = "panic" THEN "unknown pair position"
    ELSE IF checks /\ rec.tlen = I32Min THEN "attempt to negate with overflow"
    ELSE ""

\* next_pair emitting the buffered record first, whatever its pair position
next_pair_arrival_order(b, checks, rec) ==
    LET mk == mate_key(rec)
    IN  IF KeyPanic(checks, rec) # ""
        THEN [panic |-> KeyPanic(checks, rec), emit |-> FALSE, pair |-> << >>,
              buf |-> b]
        ELSE IF mk \in DOMAIN b
        THEN [panic |-> "", emit |-> TRUE, pair |-> <<b[mk], rec>>,
              buf |-> BufRemove(b, mk)]
        ELSE [panic |-> "", emit |-> FALSE, pair |-> << >>,
              buf |-> BufInsert(b, key(rec), rec)]

\* next_pair looking the record's own key up in the buffer
next_pair_lookup_own_key(b, checks, rec) ==
    LET mk == key(rec)
    IN  IF KeyPanic(checks, rec) # ""
        THEN [panic |-> KeyPanic(checks, rec), emit |-> FALSE, pair |-> << >>,
              buf |-> b]
        ELSE IF mk \in DOMAIN b
        THEN [panic |-> "", emit |-> TRUE,
              pair |-> IF mk[2] = "First" THEN <<b[mk], rec>> ELSE <<rec, b[mk]>>,
              buf |-> BufRemove(b, mk)]
        ELSE [panic |-> "", emit |-> FALSE, pair |-> << >>,
              buf |-> BufInsert(b, key(rec), rec)]

\* One turn of the loop of RecordPairs::next_pair on a record just read:
\* the panic if any, whether a pair is emitted, the pair, the buffer after
next_pair(b, checks, rec) ==
    LET mk == mate_key(rec)
    IN  IF KeyPanic(checks, rec) # ""
        THEN [panic |-> KeyPanic(checks, rec), emit |-> FALSE, pair |-> << >>,
              buf |-> b]
        ELSE IF mk \in DOMAIN b
        THEN [panic |-> "", emit |-> TRUE,
              pair |-> IF mk[2] = "First" THEN <<b[mk], rec>> ELSE <<rec, b[mk]>>,
              buf |-> BufRemove(b, mk)]
        ELSE [panic |-> "", emit |-> FALSE, pair |-> << >>,
              buf |-> BufInsert(b, key(rec), rec)]

----------------------------------------------------------------------------
\* count.rs, the singleton path


\* The singleton path inverting as the single-end path does, whatever the
\* pair position of the record
count_singleton_record_as_single_end(c, features, references, flt, spec, rec) ==
    LET f == FilterRecord(flt, c, rec)
        position == PairPositionFrom(rec.flags)
        reverse == (spec = "Reverse")
        intervals == CigarToIntervals(rec.cigar, rec.pos + 1, rec.flags, reverse)
        t == get_tree(f.ctx, features, references, rec.ref_id)
    IN  IF f.drop THEN Counted(f.ctx)
        ELSE IF position = "panic"
        THEN Failed(f.ctx, "record is neither read 1 nor 2")
        ELSE IF ~t.ok THEN Failed(t.ctx, t.error)
        ELSE IF ~t.some THEN Counted(t.ctx)
        ELSE Counted(update_intersections(t.ctx, find(t.tree, intervals, spec)))

\* The body of the loop of count_paired_end_record_singletons on one record
count_singleton_record(c, features, references, flt, spec, rec) ==
    LET f == FilterRecord(flt, c, rec)
        position == PairPositionFrom(rec.flags)
        reverse0 == (position = "Second")
        reverse == IF spec = "Reverse" THEN ~reverse0 ELSE reverse0
        intervals == CigarToIntervals(rec.cigar, rec.pos + 1, rec.flags, reverse)
        t == get_tree(f.ctx, features, references, rec.ref_id)
    IN  IF f.drop THEN Counted(f.ctx)
        ELSE IF position = "panic"
        THEN Failed(f.ctx, "record is neither read 1 nor 2")
        ELSE IF ~t.ok THEN Failed(t.ctx, t.error)
        ELSE IF ~t.some THEN Counted(t.ctx)
        ELSE Counted(update_intersections(t.ctx, find(t.tree, intervals, spec)))

----------------------------------------------------------------------------
\* Inputs

Rec(name, flags, mapq, nh, ref_id, pos, next_ref_id, next_pos, tlen, cigar) ==
    [name |-> name, flags |-> flags, mapq |-> mapq, nh |-> nh, ref_id |-> ref_id,
     pos |-> pos, next_ref_id |-> next_ref_id, next_pos |-> next_pos,
     tlen |-> tlen, cigar |-> cigar]

\* ByteRecord::new()
NoRecord == Rec("", {}, 0, 0, -1, -1, -1, -1, 0, << >>)

Cigar5M    == <<Op("M", 5)>>
CigarSplit == <<Op("M", 3), Op("N", 2), Op("M", 3)>>
CigarClip  == <<Op("S", 4)>>

\* Single-end inputs: every combination of the filtered properties on a read
\* of chr1, a passing read, reversed or not, on every reference id (chr1 with
\* every position and CIGAR), and a read of reference id -1 flagged unmapped.
FilterProbes ==
    {Rec("s", fl, mq, nh, 0, 9, -1, -1, 0, Cigar5M) :
        fl \in SUBSET {"unmapped", "secondary", "supplementary", "duplicate"},
        mq \in {5, 20}, nh \in {1, 2}}

Placements ==
    {<<0, pos, cg>> : pos \in {9, 14, 39}, cg \in {Cigar5M, CigarSplit, CigarClip}}
    \cup {<<ref, 9, Cigar5M>> : ref \in {-1, 1, 2, 3}}

CountProbes ==
    {Rec("s", fl, 20, 1, p[1], p[2], -1, -1, 0, p[3]) :
        fl \in SUBSET {"reverse"}, p \in Placements}
    \cup {Rec("s", {"unmapped"} \cup fl, 20, 1, -1, -1, -1, -1, 0, << >>) :
            fl \in SUBSET {"reverse"}}

SingleRecords == FilterProbes \cup CountProbes

\* Filter configurations: the strictest, the most permissive, and the
\* strictest with one option relaxed.
StrictFilter ==
    [min_mapping_quality |-> 10, with_secondary_records |-> FALSE,
     with_supplementary_records |-> FALSE, with_nonunique_records |-> FALSE,
     with_duplicate_records |-> FALSE]

PermissiveFilter ==
    [min_mapping_quality |-> 0, with_secondary_records |-> TRUE,
     with_supplementary_records |-> TRUE, with_nonunique_records |-> TRUE,
     with_duplicate_records |-> TRUE]

Filters ==
    {StrictFilter, PermissiveFilter}
    \cup {[StrictFilter EXCEPT ![o] = PermissiveFilter[o]] : o \in DOMAIN StrictFilter}

\* Paired inputs.  Mates: read 1 at chr1:9 and read 2 at chr1:14, each naming
\* the other as its mate, each with two CIGARs (one key, two records).
Loci == {<<"read1", 0, 9, 0, 14, 5>>, <<"read2", 0, 14, 0, 9, -5>>}

MatePairs ==
    {Rec("q", {l[1]}, 20, 1, l[2], l[3], l[4], l[5], l[6], cg) :
        l \in Loci, cg \in {Cigar5M, CigarSplit}}

\* Near misses of the key: another name, the template length not negated,
\* position 0 against -1, both or neither of the read bits.
NearMisses ==
    {Rec("r", {"read2"}, 20, 1, 0, 14, 0, 9, -5, Cigar5M),
     Rec("q", {"read2"}, 20, 1, 0, 14, 0, 9, 5, Cigar5M),
     Rec("q", {"read1"}, 20, 1, 0, 0, 0, -1, 0, Cigar5M),
     Rec("q", {"read2"}, 20, 1, 0, 0, 0, 0, 0, Cigar5M),
     Rec("q", {"read1", "read2"}, 20, 1, 0, 9, 0, 14, 5, Cigar5M),
     Rec("q", {}, 20, 1, 0, 9, 0, 14, 5, Cigar5M)}

\* Mates with the template length i32::MIN
MinTlenMates ==
    {Rec("q", {"read1"}, 20, 1, 0, 9, 0, 14, -2147483647 - 1, Cigar5M),
     Rec("q", {"read2"}, 20, 1, 0, 14, 0, 9, -2147483647 - 1, Cigar5M)}

\* Mates of which one is filtered, is on a reference without a tree (chr3),
\* or has a reference id outside the reference table (one of them the mate 2,
\* of reference id -1, of a mate 1 on chr3).
OddMates ==
    {Rec("q", {"read1"}, 20, 1, 0, 9, -1, -1, 0, Cigar5M),
     Rec("q", {"read1"}, 20, 1, 2, 9, -1, -1, 0, Cigar5M),
     Rec("q", {"read2"}, 20, 1, -1, -1, 2, 9, 0, << >>),
     Rec("q", {"read2", "unmapped"}, 20, 1, -1, -1, 0, 9, 0, << >>),
     Rec("q", {"read2"}, 20, 1, -1, -1, 0, 9, 0, << >>),
     Rec("q", {"read1"}, 5, 1, 0, 9, 0, 14, 5, Cigar5M),
     Rec("q", {"read2", "secondary"}, 20, 1, 0, 14, 0, 9, -5, Cigar5M),
     Rec("q", {"read2", "reverse"}, 20, 1, 0, 14, 0, 9, -5, Cigar5M),
     Rec("q", {"read1"}, 20, 1, 0, 9, 2, 14, 0, Cigar5M),
     Rec("q", {"read2"}, 20, 1, 2, 14, 0, 9, 0, Cigar5M),
     Rec("q", {"read1"}, 20, 1, 2, 9, 0, 14, 1, Cigar5M),
     Rec("q", {"read2"}, 20, 1, 0, 14, 2, 9, -1, Cigar5M),
     Rec("q", {"read1"}, 20, 1, 2, 9, 2, 14, 4, Cigar5M),
     Rec("q", {"read2"}, 20, 1, 2, 14, 2, 9, -4, Cigar5M),
     Rec("q", {"read1"}, 20, 1, 3, 9, 0, 14, 3, Cigar5M),
     Rec("q", {"read2"}, 20, 1, 0, 14, 3, 9, -3, Cigar5M)}

PairedRecords == MatePairs \cup NearMisses \cup MinTlenMates \cup OddMates

\* Inputs of the runs that keep the stream: read 1 of the mates with either
\* CIGAR (one key, two records) and read 2; the same mates under another name,
\* read 2 of low quality; and reads whose mate is not in the set, one on chr3
\* (no tree), one unmapped.
OrderRecords ==
    {Rec("q", {"read1"}, 20, 1, 0, 9, 0, 14, 5, Cigar5M),
     Rec("q", {"read1"}, 20, 1, 0, 9, 0, 14, 5, CigarSplit),
     Rec("q", {"read2"}, 20, 1, 0, 14, 0, 9, -5, Cigar5M),
     Rec("r", {"read1"}, 20, 1, 0, 9, 0, 14, 5, Cigar5M),
     Rec("r", {"read2"}, 5, 1, 0, 14, 0, 9, -5, Cigar5M),
     Rec("q", {"read2"}, 20, 1, 2, 9, 2, 14, 5, Cigar5M),
     Rec("q", {"read1", "unmapped"}, 20, 1, -1, -1, -1, -1, 0, << >>)}

PairedFilters == {StrictFilter, PermissiveFilter}

StrandSpecifications == {"None", "Forward", "Reverse"}

----------------------------------------------------------------------------
\* The same stream under a changed configuration, run beside the real one

SwapStrand(s) ==
    CASE s = "Forward" -> "Reverse"
      [] s = "Reverse" -> "Forward"
      [] OTHER -> s

FlipReverse(rec) ==
    [rec EXCEPT !.flags = IF "reverse" \in @ THEN @ \ {"reverse"} ELSE @ \cup {"reverse"}]

SwapFeatures(features) ==
    [name \in DOMAIN features |->
        {[e EXCEPT !.strand = SwapStrand(@)] : e \in features[name]}]

\* none: strand_specification None.  flipped: Forward and Reverse swapped in
\* the strand specification and in every read's reverse flag.  mirrored: as
\* flipped, and swapped in every feature's strand too.
AltSingle(a, flt, spec, rec) ==
    [none |-> count_single_end_record(
                  a.none, Features, ReferenceSequences, flt, "None", rec).ctx,
     flipped |-> count_single_end_record(
                  a.flipped, Features, ReferenceSequences, flt, SwapStrand(spec),
                  FlipReverse(rec)).ctx,
     mirrored |-> count_single_end_record(
                  a.mirrored, SwapFeatures(Features), ReferenceSequences, flt,
                  SwapStrand(spec), FlipReverse(rec)).ctx]

----------------------------------------------------------------------------
\* State

VARIABLES
    pc,                   \* where the run is: single, pairs, singletons, done,
                          \* error (the entry point returned Err), panic
    error,                \* the error returned or the message of the panic, or ""
    filter,               \* the Filter of the run
    strand_specification, \* the StrandSpecification of the run
    overflow_checks,      \* whether the build panics on integer overflow
    ctx,                  \* the Context of the entry point
    alt,                  \* the Contexts of the same stream, configuration changed
    sctx,                 \* the Context of count_paired_end_record_singletons
    buf,                  \* RecordPairs::buf
    record,               \* the record last read from the source
    pair,                 \* the pair last emitted by the pair buffer, or << >>
    n,                    \* records read from the source
    npairs,               \* pairs emitted by the pair buffer
    nsingletons,          \* records yielded by the singleton drain
    warned,               \* the count of the warning "{} records are singletons"
    consumed,             \* the records read by the pair buffer, in order
    probe,                \* one function called on its own: arguments and result
    primary_only          \* the flag count_paired_end_records hands to
                          \* RecordPairs::new

vars == <<pc, error, filter, strand_specification, overflow_checks, ctx, alt, sctx,
          buf, record, pair, n, npairs, nsingletons, warned, consumed, probe,
          primary_only>>

\* No function is called on its own in a run of an entry point
NoProbe == [fn |-> "", args |-> << >>, result |-> << >>]

AltDefault == [none |-> ContextDefault, flipped |-> ContextDefault,
               mirrored |-> ContextDefault]

InitIdle ==
    /\ error = ""
    /\ warned = 0
    /\ ctx = ContextDefault
    /\ alt = AltDefault
    /\ sctx = ContextDefault
    /\ buf = EmptyBuf
    /\ record = NoRecord
    /\ pair = << >>
    /\ n = 0
    /\ npairs = 0
    /\ nsingletons = 0
    /\ consumed = << >>

InitCommon == InitIdle /\ probe = NoProbe

----------------------------------------------------------------------------
\* count_single_end_records

InitSingle ==
    /\ pc = "single"
    /\ filter \in Filters
    /\ strand_specification \in StrandSpecifications
    /\ overflow_checks = FALSE
    /\ primary_only = FALSE
    /\ InitCommon

\* One turn of the loop: the source yields a record
SingleRecord ==
    /\ pc = "single"
    /\ n < MaxRecords
    /\ \E rec \in SingleRecords :
        LET res == count_single_end_record(ctx, Features, ReferenceSequences,
                                           filter, strand_specification, rec)
        IN  /\ record' = rec
            /\ n' = n + 1
            /\ ctx' = res.ctx
            /\ alt' = IF res.ok THEN AltSingle(alt, filter, strand_specification, rec)
                      ELSE alt
            /\ pc' = IF res.ok THEN "single" ELSE "error"
            /\ error' = res.error
    /\ UNCHANGED <<probe, primary_only>>
    /\ UNCHANGED <<filter, strand_specification, overflow_checks, sctx, buf, pair,
                   npairs, nsingletons, warned, consumed>>

\* The source yields an error: result? returns it
SingleSourceError ==
    /\ pc = "single"
    /\ pc' = "error"
    /\ error' = "io"
    /\ UNCHANGED <<probe, primary_only>>
    /\ UNCHANGED <<filter, strand_specification, overflow_checks, ctx, alt, sctx,
                   buf, record, pair, n, npairs, nsingletons, warned, consumed>>

\* The source is exhausted: Ok(ctx)
SingleEnd ==
    /\ pc = "single"
    /\ pc' = "done"
    /\ UNCHANGED <<probe, primary_only>>
    /\ UNCHANGED <<error, filter, strand_specification, overflow_checks, ctx, alt,
                   sctx, buf, record, pair, n, npairs, nsingletons, warned, consumed>>

NextSingle == SingleRecord \/ SingleSourceError \/ SingleEnd

SpecSingle == InitSingle /\ [][NextSingle]_vars

----------------------------------------------------------------------------
\* count_paired_end_records, then count_paired_end_record_singletons on the
\* drain of the pair buffer

\* count_paired_end_records computes primary_only from the filter and hands
\* it to RecordPairs::new with the records (count.rs 97-98).  The RecordPairs
\* of record_pairs.rs has no field for it and its next_pair no test of it:
\* the flag is kept here as the entry computes it, and next_pair, as in
\* record_pairs.rs 87-118, pairs or buffers every record it reads.
PrimaryOnly(flt) ==
    ~flt.with_secondary_records /\ ~flt.with_supplementary_records

InitPaired ==
    /\ pc = "pairs"
    /\ filter \in PairedFilters
    /\ strand_specification \in StrandSpecifications
    /\ overflow_checks \in BOOLEAN
    /\ primary_only = PrimaryOnly(filter)
    /\ InitCommon

InitOrder ==
    /\ pc = "pairs"
    /\ filter \in PairedFilters
    /\ strand_specification \in StrandSpecifications
    /\ overflow_checks = FALSE
    /\ primary_only = PrimaryOnly(filter)
    /\ InitCommon

\* One turn of the loop of next_pair: the source yields a record; when it
\* completes a pair, the body of the loop of count_paired_end_records runs.
PairedPull(source, keep, limit) ==
    /\ pc = "pairs"
    /\ n < limit
    /\ \E rec \in source :
        LET step == next_pair(buf, overflow_checks, rec)
            res == count_paired_end_pair(
                       ctx, Features, ReferenceSequences, filter,
                       strand_specification, step.pair[1], step.pair[2])
        IN  /\ record' = rec
            /\ n' = n + 1
            /\ consumed' = IF keep THEN Append(consumed, rec) ELSE consumed
            /\ buf' = step.buf
            /\ IF step.panic # ""
               THEN /\ pc' = "panic"
                    /\ error' = step.panic
                    /\ UNCHANGED <<ctx, pair, npairs>>
               ELSE IF step.emit
               THEN /\ pair' = step.pair
                    /\ npairs' = npairs + 1
                    /\ ctx' = res.ctx
                    /\ pc' = IF res.ok THEN "pairs" ELSE "error"
                    /\ error' = res.error
               ELSE UNCHANGED <<pc, error, ctx, pair, npairs>>
    /\ UNCHANGED <<probe, primary_only>>
    /\ UNCHANGED <<filter, strand_specification, overflow_checks, alt, sctx,
                   nsingletons, warned>>

PairedRecord == PairedPull(PairedRecords, FALSE, MaxPaired)

\* The same on the inputs of the reordering check, which keeps the stream
OrderedRecord == PairedPull(OrderRecords, TRUE, MaxOrdered)

\* The source yields an error: next_pair returns Some(Err(e)), pair? returns it
PairedSourceError ==
    /\ pc = "pairs"
    /\ pc' = "error"
    /\ error' = "io"
    /\ UNCHANGED <<probe, primary_only>>
    /\ UNCHANGED <<filter, strand_specification, overflow_checks, ctx, alt, sctx,
                   buf, record, pair, n, npairs, nsingletons, warned, consumed>>

\* The end of the source taken for an error when records are buffered
PairedEnd_fails_on_singletons ==
    /\ pc = "pairs"
    /\ pc' = IF buf = EmptyBuf THEN "singletons" ELSE "error"
    /\ error' = IF buf = EmptyBuf THEN "" ELSE "singletons"
    /\ warned' = Cardinality(DOMAIN buf)
    /\ UNCHANGED <<probe, primary_only>>
    /\ UNCHANGED <<filter, strand_specification, overflow_checks, ctx, alt,
                   sctx, buf, record, pair, n, npairs, nsingletons, consumed>>

\* The source is exhausted: next_pair warns of the buffered records and
\* returns None, Ok((ctx, pairs)); the caller then drains the buffer
PairedEnd ==
    /\ pc = "pairs"
    /\ pc' = "singletons"
    /\ warned' = Cardinality(DOMAIN buf)
    /\ UNCHANGED <<probe, primary_only>>
    /\ UNCHANGED <<error, filter, strand_specification, overflow_checks, ctx, alt,
                   sctx, buf, record, pair, n, npairs, nsingletons, consumed>>

\* The drain yields one buffered record, in the order of the hash map.  When
\* the body of the loop returns an error the function returns, the Drain it
\* was given is dropped, and the drop removes the records not yet yielded.
SingletonRecord ==
    /\ pc = "singletons"
    /\ \E k \in DOMAIN buf :
        LET res == count_singleton_record(
                       sctx, Features, ReferenceSequences, filter,
                       strand_specification, buf[k])
        IN  /\ record' = buf[k]
            /\ buf' = IF res.ok THEN BufRemove(buf, k) ELSE EmptyBuf
            /\ nsingletons' = nsingletons + 1
            /\ sctx' = res.ctx
            /\ pc' = IF res.ok THEN "singletons" ELSE "error"
            /\ error' = res.error
    /\ UNCHANGED <<probe, primary_only>>
    /\ UNCHANGED <<filter, strand_specification, overflow_checks, ctx, alt, pair,
                   n, npairs, warned, consumed>>

\* The iterator handed to count_paired_end_record_singletons yields an
\* error: `let record = result?` returns it.  The drain of the pair buffer
\* yields records, so the error is one of the caller's adapter, raised before
\* it takes a record from the drain or on the conversion of the record it
\* took.  The function returns, the Drain is dropped, and the drop removes
\* the records not yet yielded.
SingletonSourceError ==
    /\ pc = "singletons"
    /\ pc' = "error"
    /\ error' = "io"
    /\ buf' = EmptyBuf
    /\ \/ UNCHANGED <<record, nsingletons>>
       \/ \E k \in DOMAIN buf :
            /\ record' = buf[k]
            /\ nsingletons' = nsingletons + 1
    /\ UNCHANGED <<probe, primary_only>>
    /\ UNCHANGED <<filter, strand_specification, overflow_checks, ctx, alt, sctx,
                   pair, n, npairs, warned, consumed>>

\* The drain is exhausted: Ok(ctx)
SingletonsEnd ==
    /\ pc = "singletons"
    /\ buf = EmptyBuf
    /\ pc' = "done"
    /\ UNCHANGED <<probe, primary_only>>
    /\ UNCHANGED <<error, filter, strand_specification, overflow_checks, ctx, alt,
                   sctx, buf, record, pair, n, npairs, nsingletons, warned, consumed>>

NextPaired ==
    \/ PairedRecord
    \/ PairedSourceError
    \/ PairedEnd
    \/ SingletonRecord
    \/ SingletonSourceError
    \/ SingletonsEnd

SpecPaired == InitPaired /\ [][NextPaired]_vars

NextOrder ==
    \/ OrderedRecord
    \/ PairedSourceError
    \/ PairedEnd
    \/ SingletonRecord
    \/ SingletonSourceError
    \/ SingletonsEnd

SpecOrder == InitOrder /\ [][NextOrder]_vars

\* Runs to the end of the stream and of the drain, on short streams of
\* mates, reads without a mate (one on chr3, without a tree) and an unmapped
\* read.  The loops go on: the source yields a record, an error or its end,
\* the drain a record, an error or its end.
MaxDrained == 2

EndRecords ==
    {Rec("q", {"read1"}, 20, 1, 0, 9, 0, 14, 5, Cigar5M),
     Rec("q", {"read2"}, 20, 1, 0, 14, 0, 9, -5, Cigar5M),
     Rec("r", {"read1"}, 20, 1, 0, 9, 0, 14, 5, CigarSplit),
     Rec("q", {"read2"}, 20, 1, 2, 9, 2, 14, 5, Cigar5M),
     Rec("q", {"read1", "unmapped"}, 20, 1, -1, -1, -1, -1, 0, << >>)}

EndRecord == PairedPull(EndRecords, FALSE, MaxDrained)

NextEnd ==
    \/ EndRecord
    \/ PairedSourceError
    \/ PairedEnd
    \/ SingletonRecord
    \/ SingletonSourceError
    \/ SingletonsEnd

SpecEnd == InitOrder /\ [][NextEnd]_vars /\ WF_vars(NextEnd)

\* Either kind of run
Init == InitSingle \/ InitPaired

Next == NextSingle \/ NextPaired

Spec == Init /\ [][Next]_vars

----------------------------------------------------------------------------
\* Properties

\* The step hands a record of the drain to the body of the loop of
\* count_paired_end_record_singletons
CountsSingleton ==
    pc = "singletons" /\ nsingletons' = nsingletons + 1 /\ error' # "io"

\* The count of a gene, 0 when counts has no entry for it
Count(c, g) == IF g \in DOMAIN c.counts THEN c.counts[g] ELSE 0

\* counts with one unit added to gene g
Bump(counts, g) ==
    [h \in DOMAIN counts \cup {g} |->
        IF h = g THEN (IF g \in DOMAIN counts THEN counts[g] ELSE 0) + 1
        ELSE counts[h]]

\* b is a with one unit added to exactly one of: one gene's count,
\* no_feature, ambiguous; nothing else differs
OneUnit(a, b) ==
    \/ b = [a EXCEPT !.no_feature = @ + 1]
    \/ b = [a EXCEPT !.ambiguous = @ + 1]
    \/ \E g \in DOMAIN b.counts : b = [a EXCEPT !.counts = Bump(a.counts, g)]

\* The reference of the record is in the reference table and has no tree
AbsentTree(rec) ==
    /\ rec.ref_id + 1 \in DOMAIN ReferenceSequences
    /\ ReferenceSequences[rec.ref_id + 1] \notin DOMAIN Features

\* The reference of the record is in the reference table and has a tree
HasTree(rec) ==
    /\ rec.ref_id + 1 \in DOMAIN ReferenceSequences
    /\ ReferenceSequences[rec.ref_id + 1] \in DOMAIN Features

Passes(rec) == FilterReason(filter, rec) = "pass"

\* C1: single-end conservation.  As long as count_single_end_records has met
\* no fatal error, the per-gene counts, no_feature, ambiguous and the six
\* filter counters add up to the number of records consumed so far: the input
\* length at end of stream, 0 (an empty Context) for an empty input.
SingleEndConservation ==
    pc \in {"single", "done"} =>
        /\ Total(ctx) = n
        /\ (n = 0 => ctx = ContextDefault)

SingleEndConservationWitness ==
    /\ pc = "done"
    /\ n >= 2
    /\ FilterCounters(ctx) >= 1
    /\ SumCounts(ctx.counts) >= 1

\* C2: a record (single-end, singleton path) or pair (paired path) that
\* passes the filter and is counted without a fatal error adds one unit to
\* exactly one of a gene's count, no_feature, ambiguous, and changes nothing
\* else; when the reference of the record, or of either mate, has no tree the
\* unit goes to no_feature, once.
PassedCountsOnce ==
    [][/\ (pc = "single" /\ pc' = "single" /\ n' = n + 1 /\ Passes(record'))
            => /\ OneUnit(ctx, ctx')
               /\ AbsentTree(record') => ctx' = [ctx EXCEPT !.no_feature = @ + 1]
       /\ (/\ pc = "pairs" /\ pc' = "pairs" /\ npairs' = npairs + 1
           /\ Passes(pair'[1]) /\ Passes(pair'[2]))
            => /\ OneUnit(ctx, ctx')
               /\ (AbsentTree(pair'[1]) \/ AbsentTree(pair'[2]))
                    => ctx' = [ctx EXCEPT !.no_feature = @ + 1]
       /\ (/\ pc = "singletons" /\ pc' = "singletons"
           /\ nsingletons' = nsingletons + 1 /\ Passes(record'))
            => /\ OneUnit(sctx, sctx')
               /\ AbsentTree(record') => sctx' = [sctx EXCEPT !.no_feature = @ + 1]
      ]_vars

\* A passing pair, both mates on the reference without a tree, was counted
PassedCountsOnceWitness ==
    /\ pc = "pairs"
    /\ npairs = 1
    /\ pair # << >>
    /\ Passes(pair[1]) /\ Passes(pair[2])
    /\ AbsentTree(pair[1]) /\ AbsentTree(pair[2])
    /\ ctx = [ContextDefault EXCEPT !.no_feature = 1]

\* C3: paired conservation.  Without a fatal error the main Context adds up
\* to the number of pairs the pair buffer emitted, the singleton Context to
\* the number of records drained, and at the end of a complete paired run the
\* two together to the emitted pairs plus the residual singletons (the count
\* of the end-of-stream warning, all of them drained).
PairedConservation ==
    /\ pc \in {"pairs", "singletons", "done"} => Total(ctx) = npairs
    /\ pc \in {"singletons", "done"} =>
        /\ Total(sctx) = nsingletons
        /\ nsingletons + Cardinality(DOMAIN buf) = warned
    /\ pc = "done" => Total(ctx) + Total(sctx) = npairs + warned

PairedConservationWitness ==
    /\ pc = "done"
    /\ npairs >= 1
    /\ warned >= 1
    /\ sctx.no_feature >= 1

\* a and b are i32 values and each is the negation of the other
Negations(a, b) == a # I32Min /\ b # I32Min /\ a = -b

\* m is the mate of r: the same read name, the opposite pair position, each
\* one's reference id and position the other's mate reference id and mate
\* position, the template lengths negations of each other
IsMate(r, m) ==
    /\ r.name = m.name
    /\ PairPositionFrom(r.flags) \in {"First", "Second"}
    /\ PairPositionFrom(m.flags) \in {"First", "Second"}
    /\ PairPositionFrom(m.flags) # PairPositionFrom(r.flags)
    /\ m.ref_id = r.next_ref_id /\ m.pos = r.next_pos
    /\ r.ref_id = m.next_ref_id /\ r.pos = m.next_pos
    /\ Negations(r.tlen, m.tlen)

\* C4: every pair (r1, r2) the pair buffer emits has one read name, r1
\* classifying as First and r2 as Second whichever arrived first, each mate's
\* reference id and position equal to the other's mate reference id and mate
\* position, and template lengths that are negations of each other.
EmittedPairIsMates ==
    pair # << >> =>
        /\ pair[1].name = pair[2].name
        /\ PairPositionFrom(pair[1].flags) = "First"
        /\ PairPositionFrom(pair[2].flags) = "Second"
        /\ pair[1].ref_id = pair[2].next_ref_id /\ pair[1].pos = pair[2].next_pos
        /\ pair[2].ref_id = pair[1].next_ref_id /\ pair[2].pos = pair[1].next_pos
        /\ Negations(pair[1].tlen, pair[2].tlen)

\* C5: key / mate-key symmetry.  Every buffered record r is stored under
\* key(r); for every record m of the source, m is the mate of r exactly when
\* mate_key(m) is key(r) (so -1 and 0 in a reference id or position, and the
\* two signs of a template length, are never taken for each other), and then
\* key(m) is mate_key(r) too (a buffered template length of i32::MIN, which
\* has no negation, aside); and when the mate of a buffered record reaches
\* the lookup, the two are emitted as a pair.
KeySymmetryInBuffer ==
    \A k \in DOMAIN buf :
        /\ k = key(buf[k])
        /\ \A m \in PairedRecords :
            /\ IsMate(buf[k], m) =>
                /\ mate_key(m) = k
                /\ key(m) = mate_key(buf[k])
            /\ (mate_key(m) = k /\ buf[k].tlen # I32Min) => IsMate(buf[k], m)

MateIsFound ==
    (/\ pc = "pairs" /\ n' = n + 1
     /\ \E k \in DOMAIN buf : IsMate(buf[k], record'))
        => /\ npairs' = npairs + 1
           /\ IsMate(pair'[1], pair'[2])
           /\ record' \in {pair'[1], pair'[2]}
           /\ \E k \in DOMAIN buf : buf[k] \in {pair'[1], pair'[2]} /\ k \notin DOMAIN buf'

KeyMateKeySymmetry == []KeySymmetryInBuffer /\ [][MateIsFound]_vars

\* A mate arrived second and was paired with the buffered record
KeyMateKeySymmetryWitness ==
    /\ npairs = 1
    /\ n = 2
    /\ pair # << >>
    /\ IsMate(pair[1], pair[2])
    /\ record = pair[1]
    /\ pair[1].tlen > 0

\* The pair buffer run on a whole stream: the pairs emitted, in order, and
\* the buffer left at the end of the stream
RECURSIVE PairsRun(_, _, _, _)
PairsRun(stream, i, b, out) ==
    IF i > Len(stream) THEN [emitted |-> out, buf |-> b]
    ELSE LET step == next_pair(b, overflow_checks, stream[i])
         IN  IF step.panic # "" THEN [emitted |-> out, buf |-> b]
             ELSE PairsRun(stream, i + 1, step.buf,
                           IF step.emit THEN Append(out, step.pair) ELSE out)

\* The main Context of a run that emits these pairs
RECURSIVE MainContext(_, _, _)
MainContext(pairs, i, c) ==
    IF i > Len(pairs) THEN c
    ELSE LET res == count_paired_end_pair(c, Features, ReferenceSequences, filter,
                                          strand_specification, pairs[i][1], pairs[i][2])
         IN  IF res.ok THEN MainContext(pairs, i + 1, res.ctx) ELSE res.ctx

\* The singleton Context of a run that drains these records
RECURSIVE SingletonContext(_, _)
SingletonContext(recs, c) ==
    IF recs = {} THEN c
    ELSE LET r == CHOOSE x \in recs : TRUE
             res == count_singleton_record(c, Features, ReferenceSequences, filter,
                                           strand_specification, r)
         IN  IF res.ok THEN SingletonContext(recs \ {r}, res.ctx) ELSE res.ctx

BagOf(seq) ==
    [x \in {seq[i] : i \in DOMAIN seq} |-> Cardinality({i \in DOMAIN seq : seq[i] = x})]

Buffered(b) == {b[k] : k \in DOMAIN b}

\* What a complete paired run over the stream yields
Outcome(stream) ==
    LET run == PairsRun(stream, 1, EmptyBuf, << >>)
    IN  [pairs |-> BagOf(run.emitted),
         singletons |-> Buffered(run.buf),
         ctx |-> MainContext(run.emitted, 1, ContextDefault),
         sctx |-> SingletonContext(Buffered(run.buf), ContextDefault)]

Reordered(stream, p) == [i \in DOMAIN stream |-> stream[p[i]]]

Reorderings(stream) ==
    {p \in [DOMAIN stream -> DOMAIN stream] :
        \A i, j \in DOMAIN stream : p[i] = p[j] => i = j}

\* Two records of one name/position class: the same key, or mates by key
SameClass(r, m) == key(m) = key(r) \/ key(m) = mate_key(r)

\* The reorderings that move each record to a place of its own class
ClassPermutations(stream) ==
    {p \in Reorderings(stream) :
        \A i \in DOMAIN stream : SameClass(stream[i], stream[p[i]])}

NoSharedKey(stream) ==
    \A i, j \in DOMAIN stream : i # j => key(stream[i]) # key(stream[j])

\* The outcome of the stream reordered is the outcome of the run: the pairs
\* emitted (as a multiset), the residual singletons at the end of the stream,
\* and the two final Contexts
SameOutcome(stream) ==
    /\ (pc = "singletons" /\ nsingletons = 0) =>
        /\ Outcome(stream).pairs = Outcome(consumed).pairs
        /\ Outcome(stream).singletons = Buffered(buf)
        /\ Outcome(stream).ctx = ctx
    /\ pc = "done" =>
        /\ Outcome(stream).ctx = ctx
        /\ Outcome(stream).sctx = sctx

\* C6 as stated: reordering the records of a name/position class changes
\* neither the multiset of pairs emitted, nor the residual singletons, nor
\* the final Contexts.
OrderInsensitive ==
    \A p \in ClassPermutations(consumed) : SameOutcome(Reordered(consumed, p))

\* C6, amended: the same for a stream in which no two records share a key
\* (and then for every reordering of the stream).
OrderInsensitiveUniqueKeys ==
    NoSharedKey(consumed) =>
        \A p \in Reorderings(consumed) : SameOutcome(Reordered(consumed, p))

\* A complete run on three records with distinct keys, the first and the
\* last of them mates, the second a singleton
OrderInsensitiveWitness ==
    /\ pc = "done"
    /\ Len(consumed) = 3
    /\ NoSharedKey(consumed)
    /\ IsMate(consumed[1], consumed[3])
    /\ npairs = 1
    /\ warned = 1

\* The gene names one projected interval of a read finds in the tree of the
\* read's reference, under the strand rule
IntervalGenes(rec, iv) ==
    {e.gene : e \in
        {e \in Features[ReferenceSequences[rec.ref_id + 1]] :
            /\ e.start < iv.end /\ iv.start < e.end
            /\ \/ strand_specification = "None"
               \/ e.strand = "Forward" /\ ~iv.is_reverse
               \/ e.strand = "Reverse" /\ iv.is_reverse}}

\* The union of the gene names found over all the projected intervals of rec
ReadGenes(rec, reverse) ==
    LET intervals == CigarToIntervals(rec.cigar, rec.pos + 1, rec.flags, reverse)
    IN  UNION {IntervalGenes(rec, intervals[k]) : k \in DOMAIN intervals}

\* b is a after one decision on the set S of gene names
Accounted(a, b, S) ==
    b = IF S = {} THEN [a EXCEPT !.no_feature = @ + 1]
        ELSE IF Cardinality(S) = 1
        THEN [a EXCEPT !.counts = Bump(a.counts, CHOOSE g \in S : TRUE)]
        ELSE [a EXCEPT !.ambiguous = @ + 1]

\* C7: a passing record, or pair, whose references have trees is accounted
\* once, on the union S of the gene names found over all the intervals of the
\* read (of both mates for a pair): S empty adds 1 to no_feature, one name
\* adds 1 to that gene, two or more add 1 to ambiguous; nothing else changes.
UnionAccounting ==
    [][/\ (/\ pc = "single" /\ pc' = "single" /\ n' = n + 1
           /\ Passes(record') /\ HasTree(record'))
            => Accounted(ctx, ctx',
                         ReadGenes(record', strand_specification = "Reverse"))
       /\ (/\ pc = "pairs" /\ pc' = "pairs" /\ npairs' = npairs + 1
           /\ Passes(pair'[1]) /\ Passes(pair'[2])
           /\ HasTree(pair'[1]) /\ HasTree(pair'[2]))
            => Accounted(ctx, ctx',
                         ReadGenes(pair'[1], strand_specification = "Reverse")
                         \cup ReadGenes(pair'[2], strand_specification # "Reverse"))
       /\ (/\ pc = "singletons" /\ pc' = "singletons"
           /\ nsingletons' = nsingletons + 1
           /\ Passes(record') /\ HasTree(record'))
            => Accounted(sctx, sctx',
                         ReadGenes(record',
                            (PairPositionFrom(record'.flags) = "Second")
                                # (strand_specification = "Reverse")))
      ]_vars

\* A spliced read, its first interval in gene A alone and its second in gene
\* B alone, was counted under strand_specification None: one unit, ambiguous
UnionAccountingWitness ==
    /\ pc = "single"
    /\ n = 1
    /\ strand_specification = "None"
    /\ Passes(record)
    /\ record.ref_id = 0 /\ record.pos = 14 /\ record.cigar = CigarSplit
    /\ ctx = [ContextDefault EXCEPT !.ambiguous = 1]

\* The gene names of the feature index
Genes == {e.gene : e \in UNION {Features[name] : name \in DOMAIN Features}}

Stranded == strand_specification \in {"Forward", "Reverse"}

\* C8 as stated: on the same records, every gene's count under
\* strand_specification None is at least its count under Forward or Reverse.
StrandNoneSuperset ==
    (pc \in {"single", "done"} /\ Stranded) =>
        \A g \in Genes : Count(ctx, g) <= Count(alt.none, g)

\* C8, amended: on the same records, every gene's count under Forward or
\* Reverse is at most its count under None plus the ambiguous total under
\* None; no_feature under None is at most no_feature under Forward or
\* Reverse, and ambiguous under Forward or Reverse at most ambiguous under
\* None.
StrandNoneSupersetUpToAmbiguous ==
    (pc \in {"single", "done"} /\ Stranded) =>
        /\ \A g \in Genes : Count(ctx, g) <= Count(alt.none, g) + alt.none.ambiguous
        /\ alt.none.no_feature <= ctx.no_feature
        /\ ctx.ambiguous <= alt.none.ambiguous

\* A read over genes A (Forward) and B (Reverse) counted under Forward: one
\* unit for A, and ambiguous, no unit for A, under None
StrandNoneSupersetWitness ==
    /\ pc = "single"
    /\ n = 1
    /\ strand_specification = "Forward"
    /\ Count(ctx, "A") = 1
    /\ Count(alt.none, "A") = 0
    /\ alt.none.ambiguous = 1

\* C9 as stated: swapping Forward and Reverse in the strand specification, in
\* every feature's strand and in every read's reverse flag leaves the
\* per-gene counts, no_feature and ambiguous as they were.
StrandRuleSymmetry ==
    pc \in {"single", "done"} =>
        /\ \A g \in Genes : Count(alt.mirrored, g) = Count(ctx, g)
        /\ alt.mirrored.no_feature = ctx.no_feature
        /\ alt.mirrored.ambiguous = ctx.ambiguous

\* C9, amended: swapping Forward and Reverse in the strand specification and
\* in every read's reverse flag, the features' strands left as they are,
\* leaves the per-gene counts, no_feature and ambiguous as they were.
StrandRuleSymmetrySpecAndReads ==
    pc \in {"single", "done"} =>
        /\ \A g \in Genes : Count(alt.flipped, g) = Count(ctx, g)
        /\ alt.flipped.no_feature = ctx.no_feature
        /\ alt.flipped.ambiguous = ctx.ambiguous

\* A forward read counted for gene A under Forward, and its reverse twin
\* counted for gene A under Reverse
StrandRuleSymmetryWitness ==
    /\ pc = "single"
    /\ n = 1
    /\ strand_specification = "Forward"
    /\ "reverse" \notin record.flags
    /\ Count(ctx, "A") = 1
    /\ Count(alt.flipped, "A") = 1

Unmapped(rec) == "unmapped" \in rec.flags

CountedUnmapped(a, b) == b = [a EXCEPT !.unmapped = @ + 1]

CountedFiltered(a, b) ==
    \E f \in {"low_quality", "unmapped", "nonunique", "duplicate", "secondary",
              "supplementary"} : b = [a EXCEPT ![f] = @ + 1]

NegativeReferenceError == "expected ref id >= 0"

----------------------------------------------------------------------------
\* get_reference and get_tree called on their own

MaxRefId == 4

ReferenceIds == (-MaxRefId)..MaxRefId

\* The reference table of the tests, and its prefixes (the empty table too)
ReferenceTables ==
    {SubSeq(ReferenceSequences, 1, k) : k \in 0..Len(ReferenceSequences)}

ProbeContexts ==
    {ContextDefault,
     [ContextDefault EXCEPT !.no_feature = 2],
     [ContextDefault EXCEPT !.counts = [g \in {"A"} |-> 1], !.unmapped = 1]}

InitProbe ==
    /\ InitIdle
    /\ primary_only = FALSE
    /\ pc = "call"
    /\ filter = StrictFilter
    /\ strand_specification = "None"
    /\ overflow_checks = FALSE

InitReference ==
    /\ InitProbe
    /\ \E fn \in {"get_reference", "get_tree"}, c \in ProbeContexts :
       \E references \in ReferenceTables, ref_id \in ReferenceIds :
        probe = [fn |-> fn,
                 args |-> [ctx |-> c, references |-> references, ref_id |-> ref_id],
                 result |-> << >>]

Returns(result) ==
    /\ pc' = "returned"
    /\ probe' = [probe EXCEPT !.result = result]
    /\ UNCHANGED primary_only

CallGetReference ==
    /\ pc = "call"
    /\ probe.fn = "get_reference"
    /\ Returns(get_reference(probe.args.references, probe.args.ref_id))
    /\ UNCHANGED <<error, filter, strand_specification, overflow_checks, ctx, alt,
                   sctx, buf, record, pair, n, npairs, nsingletons, warned, consumed>>

\* ctx is the &mut Context of the call
CallGetTree ==
    /\ pc = "call"
    /\ probe.fn = "get_tree"
    /\ LET t == get_tree(probe.args.ctx, Features, probe.args.references,
                         probe.args.ref_id)
       IN  /\ Returns(t)
           /\ ctx' = t.ctx
    /\ UNCHANGED <<error, filter, strand_specification, overflow_checks, alt,
                   sctx, buf, record, pair, n, npairs, nsingletons, warned, consumed>>

NextReference == CallGetReference \/ CallGetTree

SpecReference == InitReference /\ [][NextReference]_vars

InTable(args) == args.ref_id >= 0 /\ args.ref_id < Len(args.references)

\* C11: get_reference rejects every negative reference id and every id at or
\* past the length of the reference table with an InvalidData error and
\* returns the entry at that index otherwise; get_tree rejects the same ids
\* and then leaves the Context as it was; it adds 1 to no_feature exactly
\* when the id is in the table and the name has no tree, and returns the tree
\* of the name, the Context as it was, when it has one.
FeatureIndexAdapter ==
    pc = "returned" =>
        LET a == probe.args
            r == probe.result
        IN  /\ (a.ref_id < 0) => (~r.ok /\ r.error = "expected ref id >= 0")
            /\ (a.ref_id >= Len(a.references)) =>
                    (~r.ok /\ r.error = "expected ref id < len")
            /\ (probe.fn = "get_reference" /\ InTable(a)) =>
                    (r.ok /\ r.value = a.references[a.ref_id + 1])
            /\ (probe.fn = "get_tree" /\ ~InTable(a)) => ctx = a.ctx
            /\ (probe.fn = "get_tree" /\ InTable(a)) =>
                    /\ r.ok
                    /\ IF a.references[a.ref_id + 1] \in DOMAIN Features
                       THEN /\ r.some
                            /\ r.tree = Features[a.references[a.ref_id + 1]]
                            /\ ctx = a.ctx
                       ELSE /\ ~r.some
                            /\ ctx = [a.ctx EXCEPT !.no_feature = @ + 1]

\* get_tree has rejected the reference id 3 of a table of three entries, the
\* Context with its no_feature of 2 as it was
FeatureIndexAdapterWitness ==
    /\ pc = "returned"
    /\ probe.fn = "get_tree"
    /\ probe.args.ref_id = 3
    /\ Len(probe.args.references) = 3
    /\ ~probe.result.ok
    /\ ctx.no_feature = 2

----------------------------------------------------------------------------
\* PairPosition::from called on its own

\* Bits of the flag bitfield
FlagBits ==
    {"paired", "read1", "read2", "reverse", "unmapped", "secondary", "duplicate"}

InitFlag ==
    /\ InitProbe
    /\ \E flags \in SUBSET FlagBits :
        probe = [fn |-> "PairPosition::from", args |-> [flags |-> flags],
                 result |-> << >>]

CallPairPositionFrom ==
    /\ pc = "call"
    /\ probe.fn = "PairPosition::from"
    /\ Returns(PairPositionFrom(probe.args.flags))
    /\ UNCHANGED <<error, filter, strand_specification, overflow_checks, ctx, alt,
                   sctx, buf, record, pair, n, npairs, nsingletons, warned, consumed>>

NextFlag == CallPairPositionFrom

SpecFlag == InitFlag /\ [][NextFlag]_vars

\* C12: the classification of a flag bitfield is First exactly when the
\* mate-1 bit is set and the mate-2 bit is not, Second exactly when the mate-2
\* bit is set and the mate-1 bit is not, and fails when neither or both bits
\* are set.
PairPositionClassification ==
    pc = "returned" =>
        LET read1 == "read1" \in probe.args.flags
            read2 == "read2" \in probe.args.flags
        IN  /\ probe.result = "First" <=> (read1 /\ ~read2)
            /\ probe.result = "Second" <=> (read2 /\ ~read1)
            /\ probe.result = "panic" <=> (read1 <=> read2)

\* The record is in the reference table
ValidReference(rec) == rec.ref_id + 1 \in DOMAIN ReferenceSequences

ReferenceErrors == {"expected ref id >= 0", "expected ref id < len"}

Classified(rec) == PairPositionFrom(rec.flags) # "panic"

\* The step reads a record in the loop over the pair buffer
PullsRecord == pc = "pairs" /\ n' = n + 1

\* C13: fatal errors stop the run.  A step in which the source yields an
\* error, the pair-position classifier fails or the reference-id check fails
\* ends the run with that error returned to the caller, and no record is read
\* after it; a step that meets none of the three (a filtered record or pair,
\* no feature, ambiguity, residual singletons at the end of the stream)
\* returns no error.
FatalErrorsStop ==
    [][/\ pc \notin {"error", "panic"}
       /\ (PullsRecord /\ ~Classified(record')) => pc' = "error"
       /\ (CountsSingleton
           /\ Passes(record') /\ ~Classified(record')) => pc' = "error"
       /\ (/\ \/ pc = "single" /\ n' = n + 1
              \/ CountsSingleton
           /\ Passes(record') /\ Classified(record') /\ ~ValidReference(record'))
            => pc' = "error" /\ error' \in ReferenceErrors
       /\ (pc = "pairs" /\ npairs' = npairs + 1
           /\ Passes(pair'[1]) /\ Passes(pair'[2]) /\ ~ValidReference(pair'[1]))
            => pc' = "error" /\ error' \in ReferenceErrors
       /\ pc' = "error" =>
            \/ /\ error' = "io" /\ UNCHANGED <<n, npairs, ctx, sctx>>
               /\ nsingletons' \in {nsingletons, nsingletons + 1}
            \/ error' \in ReferenceErrors
                /\ \/ pc = "pairs" /\ (~ValidReference(pair'[1]) \/ ~ValidReference(pair'[2]))
                   \/ pc # "pairs" /\ ~ValidReference(record')
            \/ error' = "record is neither read 1 nor 2" /\ ~Classified(record')
       /\ (pc = "pairs" /\ pc' = "singletons") => error' = ""
       /\ pc' = "done" => error' = ""
      ]_vars

Counters ==
    {"no_feature", "ambiguous", "low_quality", "unmapped", "nonunique",
     "duplicate", "secondary", "supplementary"}

\* From Context a to Context b no gene is removed, no count and no counter
\* is lowered, and the total grows by at most 1
Monotone(a, b) ==
    /\ \A g \in DOMAIN a.counts : g \in DOMAIN b.counts /\ a.counts[g] <= b.counts[g]
    /\ \A f \in Counters : a[f] <= b[f]
    /\ Total(b) <= Total(a) + 1

\* C14: monotonicity.  Across every step of a run each per-gene count and
\* each bookkeeping counter of the Context (the main and the singleton one)
\* is non-decreasing, no gene leaves counts, and the total grows by at most 1.
ContextMonotone == [][Monotone(ctx, ctx') /\ Monotone(sctx, sctx')]_vars

\* Two records were counted, one for gene A and then one for gene C
ContextMonotoneWitness ==
    /\ pc = "single"
    /\ n = 2
    /\ Count(ctx, "A") = 1
    /\ Count(ctx, "C") = 1
    /\ record.pos = 39

----------------------------------------------------------------------------
\* strand.rs.  A string is a sequence of characters.

Strands == {"Forward", "Reverse", "Irrelevant", "Unknown"}

\* impl Display for Strand with the characters of Unknown and Irrelevant
\* exchanged
fmt_unknown_as_irrelevant(strand) ==
    CASE strand = "Forward" -> <<"+">>
      [] strand = "Reverse" -> <<"-">>
      [] strand = "Unknown" -> <<".">>
      [] strand = "Irrelevant" -> <<"?">>

\* impl Display for Strand
fmt(strand) ==
    CASE strand = "Forward" -> <<"+">>
      [] strand = "Reverse" -> <<"-">>
      [] strand = "Unknown" -> <<"?">>
      [] strand = "Irrelevant" -> <<".">>

\* impl FromStr for Strand; the error is the message "invalid strand 's'"
from_str(s) ==
    CASE s = <<"+">> -> [ok |-> TRUE, value |-> "Forward", error |-> << >>]
      [] s = <<"-">> -> [ok |-> TRUE, value |-> "Reverse", error |-> << >>]
      [] s = <<"?">> -> [ok |-> TRUE, value |-> "Unknown", error |-> << >>]
      [] s = <<".">> -> [ok |-> TRUE, value |-> "Irrelevant", error |-> << >>]
      [] OTHER -> [ok |-> FALSE, value |-> "",
                   error |-> <<"invalid strand '">> \o s \o <<"'">>]

MaxTokenLen == 3

Characters == {"+", "-", "?", ".", "!", " "}

Strings == UNION {[1..k -> Characters] : k \in 0..MaxTokenLen}

InitStrand ==
    /\ InitProbe
    /\ \/ \E s \in Strings :
            probe = [fn |-> "from_str", args |-> [s |-> s], result |-> << >>]
       \/ \E strand \in Strands :
            probe = [fn |-> "fmt", args |-> [strand |-> strand], result |-> << >>]

ProbeFrame ==
    UNCHANGED <<error, filter, strand_specification, overflow_checks, ctx, alt,
                sctx, buf, record, pair, n, npairs, nsingletons, warned, consumed,
                primary_only>>

\* s.parse::<Strand>()
StrandParse ==
    /\ pc = "call"
    /\ probe.fn = "from_str"
    /\ pc' = "parsed"
    /\ probe' = [probe EXCEPT !.result = [parsed |-> from_str(probe.args.s)]]
    /\ ProbeFrame

\* format!("{}", strand) of the variant just parsed
StrandShowParsed ==
    /\ pc = "parsed"
    /\ probe.result.parsed.ok
    /\ pc' = "returned"
    /\ probe' = [probe EXCEPT !.result =
                    [parsed |-> probe.result.parsed,
                     shown |-> fmt(probe.result.parsed.value)]]
    /\ ProbeFrame

\* format!("{}", strand)
StrandShow ==
    /\ pc = "call"
    /\ probe.fn = "fmt"
    /\ pc' = "shown"
    /\ probe' = [probe EXCEPT !.result = [shown |-> fmt(probe.args.strand)]]
    /\ ProbeFrame

\* parse of the text just displayed
StrandParseShown ==
    /\ pc = "shown"
    /\ pc' = "returned"
    /\ probe' = [probe EXCEPT !.result =
                    [shown |-> probe.result.shown,
                     parsed |-> from_str(probe.result.shown)]]
    /\ ProbeFrame

NextStrand == StrandParse \/ StrandShowParsed \/ StrandShow \/ StrandParseShown

SpecStrand == InitStrand /\ [][NextStrand]_vars

Tokens == {<<"+">>, <<"-">>, <<"?">>, <<".">>}

\* C15: the text encoding of Strand is a bijection on four tokens.  Parsing
\* succeeds on "+", "-", "?", "." and on no other string (the empty and the
\* longer ones included); displaying what was parsed gives the token back,
\* and parsing what was displayed gives the variant back.
StrandEncodingBijection ==
    /\ (pc = "parsed") =>
            /\ probe.result.parsed.ok <=> probe.args.s \in Tokens
            /\ probe.result.parsed.ok => probe.result.parsed.value \in Strands
    /\ (pc = "shown") => probe.result.shown \in Tokens
    /\ (pc = "returned" /\ probe.fn = "from_str") =>
            probe.result.shown = probe.args.s
    /\ (pc = "returned" /\ probe.fn = "fmt") =>
            /\ probe.result.parsed.ok
            /\ probe.result.parsed.value = probe.args.strand

\* "?" was parsed to Unknown and displayed as "?" again
StrandEncodingBijectionWitness ==
    /\ pc = "returned"
    /\ probe.fn = "from_str"
    /\ probe.args.s = <<"?">>
    /\ probe.result.parsed.value = "Unknown"
    /\ probe.result.shown = <<"?">>

\* The inversion bit of a mate: mate 1 is inverted exactly under Reverse,
\* mate 2 exactly under the other strand specifications
InvertBit(position) ==
    IF position = "First" THEN strand_specification = "Reverse"
    ELSE strand_specification # "Reverse"

\* The effective strands of the intervals of rec projected with invert
EffectiveReverse(rec, invert) ==
    LET intervals == CigarToIntervals(rec.cigar, rec.pos + 1, rec.flags, invert)
    IN  {intervals[k].is_reverse : k \in DOMAIN intervals}

OppositeFlags(r1, r2) == ("reverse" \in r1.flags) # ("reverse" \in r2.flags)

\* C16: the inversion bit of a mate depends on its pair position and the
\* strand specification only, and is the same in the paired path and in the
\* singleton path: a passing pair, and a passing singleton, is accounted on
\* the genes found with mate 1 inverted exactly under Reverse and mate 2
\* exactly under None and Forward.  The two mates of a pair with opposite
\* reverse flags then have one effective strand.
MateInversion ==
    [][/\ (/\ pc = "pairs" /\ pc' = "pairs" /\ npairs' = npairs + 1
           /\ Passes(pair'[1]) /\ Passes(pair'[2])
           /\ HasTree(pair'[1]) /\ HasTree(pair'[2]))
            => /\ Accounted(ctx, ctx',
                            ReadGenes(pair'[1], InvertBit("First"))
                            \cup ReadGenes(pair'[2], InvertBit("Second")))
               /\ OppositeFlags(pair'[1], pair'[2]) =>
                    Cardinality(EffectiveReverse(pair'[1], InvertBit("First"))
                        \cup EffectiveReverse(pair'[2], InvertBit("Second"))) = 1
       /\ (/\ pc = "singletons" /\ pc' = "singletons"
           /\ nsingletons' = nsingletons + 1
           /\ Passes(record') /\ HasTree(record'))
            => Accounted(sctx, sctx',
                         ReadGenes(record', InvertBit(PairPositionFrom(record'.flags))))
      ]_vars

\* A pair of a forward mate 1 in gene A and a reverse mate 2 over genes A
\* (Forward) and B (Reverse) was counted under Forward: one unit for A
MateInversionWitness ==
    /\ pc = "pairs"
    /\ npairs = 1
    /\ pair # << >>
    /\ strand_specification = "Forward"
    /\ "reverse" \notin pair[1].flags
    /\ "reverse" \in pair[2].flags
    /\ ctx = [ContextDefault EXCEPT !.counts = [g \in {"A"} |-> 1]]

\* The last record of the stream whose key is k
LastWithKey(stream, k) ==
    LET at == {i \in DOMAIN stream : key(stream[i]) = k}
    IN  stream[CHOOSE i \in at : \A j \in at : j <= i]

\* The step reads a record that is buffered over a record of the same key
Overwrites ==
    /\ PullsRecord
    /\ pc' = "pairs"
    /\ mate_key(record') \notin DOMAIN buf
    /\ key(record') \in DOMAIN buf

\* C17: duplicate keys overwrite.  A record whose mate_key is not in the
\* buffer and whose key is replaces the record stored under its key and
\* nothing else, the size of the buffer unchanged, and no pair is emitted.
\* The record stored under a key is the last record of the stream with that
\* key; a pair is the record just read with the record stored under its
\* mate_key, and the drain yields stored records only: a replaced record is
\* in no later pair and is not drained, and the mate that arrives later is
\* paired with the last record.
DuplicateKeysOverwrite ==
    [][/\ Overwrites =>
            /\ buf' = [buf EXCEPT ![key(record')] = record']
            /\ Cardinality(DOMAIN buf') = Cardinality(DOMAIN buf)
            /\ npairs' = npairs
       /\ \A k \in DOMAIN buf' : buf'[k] = LastWithKey(consumed', k)
       /\ (pc = "pairs" /\ npairs' = npairs + 1) =>
            /\ {pair'[1], pair'[2]} = {record', buf[mate_key(record')]}
            /\ buf[mate_key(record')] = LastWithKey(consumed, mate_key(record'))
       /\ (pc = "singletons" /\ nsingletons' = nsingletons + 1) =>
            /\ record' = buf[key(record')]
            /\ record' = LastWithKey(consumed, key(record'))
      ]_vars

\* Two records of one key were read, the second replacing the first, and the
\* mate read after them was paired with the second
DuplicateKeysOverwriteWitness ==
    /\ pc = "pairs"
    /\ n = 3
    /\ npairs = 1
    /\ key(consumed[1]) = key(consumed[2])
    /\ consumed[1] # consumed[2]
    /\ pair = <<consumed[2], consumed[3]>>
    /\ buf = EmptyBuf

\* A step of the main iteration that reads no record and is not an error of
\* the source: the source is exhausted
EndOfStream == pc = "pairs" /\ n' = n /\ error' # "io"

\* C18: the end of the stream with unpaired records is not a failure.  The
\* main iteration comes to its end; the end of the source is signalled
\* without an error whatever is buffered, the buffer left as it is (its size
\* is the count of the warning); the drain then yields a record of the
\* buffer at each step and removes it, is exhausted only on the empty
\* buffer, having yielded as many records as were buffered at the end of
\* the stream, and however it ends it leaves the buffer empty.
EndOfStreamIsNoFailure ==
    /\ [][/\ EndOfStream =>
                /\ pc' = "singletons" /\ error' = ""
                /\ buf' = buf
                /\ warned' = Cardinality(DOMAIN buf)
          /\ (pc = "singletons" /\ nsingletons' = nsingletons + 1) =>
                \E k \in DOMAIN buf :
                    /\ record' = buf[k]
                    /\ pc' = "singletons" =>
                            buf' = [x \in DOMAIN buf \ {k} |-> buf[x]]
          /\ (pc = "singletons" /\ pc' = "done") =>
                /\ buf = EmptyBuf
                /\ nsingletons = warned
                /\ error' = ""
          /\ (pc = "singletons" /\ pc' # "singletons") => buf' = EmptyBuf
         ]_vars
    /\ (pc = "pairs") ~> (pc \in {"singletons", "error", "panic"})
    /\ (pc = "singletons") ~> (pc \in {"done", "error"})

\* The stream ended with two records buffered, and the drain has yielded
\* both and has ended
EndOfStreamIsNoFailureWitness ==
    /\ pc = "done"
    /\ error = ""
    /\ npairs = 0
    /\ warned = 2
    /\ nsingletons = 2
    /\ buf = EmptyBuf

\* C19: the buffer never holds two records that are mates of each other: for
\* every buffered record r, mate_key(r) is not a key of the buffer; and every
\* buffered record is stored under its own key(r).
BufferHoldsNoMates ==
    \A k \in DOMAIN buf :
        /\ key(buf[k]) = k
        /\ mate_key(buf[k]) \notin DOMAIN buf

\* Two records of one read name, a mate 1 and a mate 2 that are not mates of
\* each other, are buffered
BufferHoldsNoMatesWitness ==
    /\ pc = "pairs"
    /\ n = 2
    /\ \E k1, k2 \in DOMAIN buf :
        /\ k1[1] = k2[1]
        /\ k1[2] = "First" /\ k2[2] = "Second"
        /\ k2[3] = k1[5] /\ k2[4] = k1[6]

----------------------------------------------------------------------------
\* Runs that keep the stream, on mates, a read without a mate and secondary
\* and supplementary alignments, no two records of one key

MaxPulled == 3

LossRecords ==
    {Rec("q", {"read1"}, 20, 1, 0, 9, 0, 14, 5, Cigar5M),
     Rec("q", {"read2"}, 20, 1, 0, 14, 0, 9, -5, Cigar5M),
     Rec("r", {"read1"}, 20, 1, 0, 9, 0, 14, 5, CigarSplit),
     Rec("q", {"read1", "secondary"}, 20, 1, 1, 9, 0, 14, 0, Cigar5M),
     Rec("q", {"read2", "secondary"}, 20, 1, 0, 14, 1, 9, 0, Cigar5M),
     Rec("r", {"read2", "supplementary"}, 20, 1, 0, 39, 0, 9, 0, Cigar5M)}

LossRecord == PairedPull(LossRecords, TRUE, MaxPulled)

NextLoss ==
    \/ LossRecord
    \/ PairedSourceError
    \/ PairedEnd
    \/ SingletonRecord
    \/ SingletonSourceError
    \/ SingletonsEnd

SpecLoss == InitOrder /\ [][NextLoss]_vars

\* The pairs the pair buffer has emitted on the stream read so far
Emitted == PairsRun(consumed, 1, EmptyBuf, << >>).emitted

\* The number of places of emitted pairs that hold rec
PlacesInPairs(rec) ==
    Cardinality({<<j, side>> \in (DOMAIN Emitted) \X {1, 2} : Emitted[j][side] = rec})

\* rec is in exactly one emitted pair and not buffered, or buffered and in
\* no pair
PairedOrBuffered(rec) ==
    \/ PlacesInPairs(rec) = 1 /\ rec \notin Buffered(buf)
    \/ PlacesInPairs(rec) = 0 /\ rec \in Buffered(buf)

\* C20: no loss.  When no two records of the input share a key, at every
\* point of the main pairing loop the records pulled from the source are
\* twice the pairs emitted plus the size of the buffer, every pulled record
\* is in exactly one place of one emitted pair or in the buffer, and none is
\* in two pairs.
NoLoss ==
    (pc = "pairs" /\ NoSharedKey(consumed)) =>
        /\ Len(Emitted) = npairs
        /\ n = 2 * npairs + Cardinality(DOMAIN buf)
        /\ \A i \in DOMAIN consumed : PairedOrBuffered(consumed[i])

\* Three records of three keys were read: two secondary alignments that
\* are mates, emitted as a pair, and a supplementary alignment,
\* buffered
NoLossWitness ==
    /\ pc = "pairs"
    /\ n = 3
    /\ NoSharedKey(consumed)
    /\ npairs = 1
    /\ Cardinality(DOMAIN buf) = 1
    /\ "secondary" \in pair[2].flags
    /\ \E k \in DOMAIN buf : "supplementary" \in buf[k].flags

====
